---- MODULE Spec2Model ----
(***************************************************************************)
(* Auto-Pilot orchestrator of Facebook-AutoPilot-Pro.                      *)
(*                                                                         *)
(* The model follows components/Dashboard.tsx (runAutoPilotCycle, the      *)
(* start/stop effect, addLog), AutoPilotControls (handleToggle,            *)
(* handleSave, toggleVideo) and the generation client (geminiService).     *)
(*                                                                         *)
(* React scheduling (createRoot, automatic batching):                      *)
(*  - state setters called from a promise continuation, a timer callback   *)
(*    or an effect only queue an update; the render that applies the       *)
(*    queue runs in a later task (action Commit);                          *)
(*  - a click handler's update is rendered before the click task ends,     *)
(*    together with the effects it triggers, and leaves queued updates of  *)
(*    lower priority in the queue;                                         *)
(*  - an effect whose dependencies changed runs its previous cleanup and   *)
(*    then its body; refs are read at that moment;                         *)
(*  - an async function that throws before its first network request       *)
(*    rejects in a microtask, i.e. in the same task as its caller.         *)
(* The setters returned by useLocalStorage are taken to be stable and to   *)
(* apply functional updates in call order.                                 *)
(***************************************************************************)
EXTENDS Integers, Sequences, FiniteSets, TLC

\* ---- bounds ------------------------------------------------------------
MaxAppends == 60   \* addLog calls in the activity-log specification
MaxCycles == 2     \* executions of runAutoPilotCycle that pass the guard
MaxClicks == 3     \* user actions on the controls and the settings
MaxFaults == 1     \* provider calls that do not end with a usable result
MaxPosts == 2      \* posts created in the post-collection specification
MaxNow == 1        \* clock values read by Date.now() in that specification
MaxImages == 4     \* reference images passed to generateVideo

\* ---- program constants -------------------------------------------------
LogKeep == 49      \* prevLogs.slice(0, 49)

NoTimer == 0       \* autoPilotTimeoutRef.current = null
NoPhase == "NONE"  \* no setAutoPilotPhase update queued

AutoPilotPhase ==
  {"IDLE", "SCANNING_TRENDS", "GENERATING_CONTENT", "ANALYZING_IMAGE_PROMPT",
   "GENERATING_IMAGE", "GENERATING_VIDEO", "GENERATING_THUMBNAIL",
   "SCHEDULING", "COOLDOWN"}

VARIABLES
  autoPilotConfig,      \* rendered config: [isActive, enableVideo]
  autoPilotPhase,       \* rendered phase
  pendingPhase,         \* last queued setAutoPilotPhase value, or NoPhase
  autoPilotTimeoutRef,  \* ref.current: a timer id or NoTimer
  timers,               \* armed window timers: [id, cfg] (cfg: the closure's config)
  timerSeq,             \* last timer id handed out by window.setTimeout
  runs,                 \* runAutoPilotCycle executions suspended at an await
  posts,                \* post collection, newest first
  logs,                 \* activity log, newest first
  storedKey,            \* localStorage 'gemini-api-key' is set
  envKey,               \* process.env.API_KEY is set
  started,              \* history: executions of runAutoPilotCycle past its guard
  clicks,               \* history: user actions so far
  faults,               \* history: provider calls that failed so far
  aborted,              \* history: a run hard-aborted and isActive was not toggled since
  last,                 \* history: the step just taken
  call                  \* the Generation Client call or addLog sequence under study

vars == <<autoPilotConfig, autoPilotPhase, pendingPhase, autoPilotTimeoutRef,
          timers, timerSeq, runs, posts, logs, storedKey, envKey, started,
          clicks, faults, aborted, last, call>>

Min(a, b) == IF a < b THEN a ELSE b

\* no Generation Client call under study
NoCall == [fn |-> "none"]

\* no run touched by the task
NoRun ==
  [id |-> 0, pc |-> "", cfg |-> [isActive |-> FALSE, enableVideo |-> FALSE],
   trend |-> "", content |-> "", title |-> FALSE, img |-> FALSE,
   video |-> FALSE]

\* ---- the mutable world a task works on ----------------------------------
World ==
  [pend |-> pendingPhase, ref |-> autoPilotTimeoutRef, timers |-> timers,
   seq |-> timerSeq, runs |-> runs, posts |-> posts, logs |-> logs,
   started |-> started, ev |-> <<"none", "">>, sets |-> <<>>, cleared |-> {},
   logged |-> <<>>, run |-> NoRun]

\* (sets: the values passed to the setter in this task, for the step's record)
setAutoPilotPhase(w, p) == [w EXCEPT !.pend = p, !.sets = Append(@, p)]

\* a log keeping one entry too many
pushLog_Slice50(prevLogs, newLog) ==
  <<newLog>> \o SubSeq(prevLogs, 1, Min(Len(prevLogs), LogKeep + 1))

\* setLogs((prevLogs) => [newLog, ...prevLogs.slice(0, 49)])
pushLog(prevLogs, newLog) ==
  <<newLog>> \o SubSeq(prevLogs, 1, Min(Len(prevLogs), LogKeep))

\* (logged: the entries this task appended, oldest first, for the step's record)
addLog(w, agent, status) ==
  LET newLog == [agent |-> agent, status |-> status]
  IN  [w EXCEPT !.logs = pushLog(@, newLog), !.logged = Append(@, newLog)]

\* (cleared: the pending timers this task cancelled, for the step's record)
clearTimeout(w, id) ==
  [w EXCEPT !.timers = {t \in @ : t.id # id},
            !.cleared = @ \cup {t.id : t \in {x \in w.timers : x.id = id}}]

\* getGenAIInstance: TRUE when a client is built, FALSE when it throws
\* ApiKeyError('MISSING')
getGenAIInstance == storedKey \/ envKey

\* (run: the run the task executed, as the task leaves it)
Suspend(w, r, pc) ==
  [w EXCEPT !.runs = {x \in @ : x.id # r.id} \cup {[r EXCEPT !.pc = pc]},
            !.run = [r EXCEPT !.pc = pc]]

EndRun(w, r, ev) ==
  [w EXCEPT !.runs = {x \in @ : x.id # r.id}, !.ev = ev, !.run = r]

\* a catch handler that also re-arms the interval timer
CycleCatch_Reschedule(w, r, stage) ==
  LET id == w.seq + 1
  IN  [setAutoPilotPhase(addLog(EndRun(w, r, <<"abort", stage>>),
                                "AutoPilot", "Error"), "IDLE")
         EXCEPT !.seq = id, !.ref = id,
                !.timers = @ \cup {[id |-> id, cfg |-> r.cfg]}]

\* catch (error) { addLog('AutoPilot', ..., 'Error'); setAutoPilotPhase('IDLE') }
\* (stage: the call that threw; recorded in the step's event only)
CycleCatch(w, r, stage) ==
  setAutoPilotPhase(addLog(EndRun(w, r, <<"abort", stage>>),
                           "AutoPilot", "Error"), "IDLE")

\* steps 7 and 8 adding the post at the end of the collection
Scheduling_AppendLast(w, r, thumb) ==
  LET newPost == [title |-> IF r.title THEN "generated" ELSE "default",
                  content |-> r.content, imageUrl |-> r.img,
                  videoUrl |-> r.video, thumbnailUrl |-> thumb,
                  status |-> "Scheduled", run |-> r.id]
      w1 == setAutoPilotPhase(w, "SCHEDULING")
      w2 == [w1 EXCEPT !.posts = @ \o <<newPost>>]
      w3 == addLog(w2, "SchedulerAgent", "Success")
      w4 == setAutoPilotPhase(w3, "COOLDOWN")
      w5 == addLog(w4, "AutoPilot", "Success")
      id == w5.seq + 1
  IN  [EndRun(w5, r, <<"scheduled", r.pc>>) EXCEPT
         !.seq = id, !.ref = id,
         !.timers = @ \cup {[id |-> id, cfg |-> r.cfg]}]

\* steps 7 and 8 (run: the run that made the post, kept for the properties)
Scheduling(w, r, thumb) ==
  LET newPost == [title |-> IF r.title THEN "generated" ELSE "default",
                  content |-> r.content, imageUrl |-> r.img,
                  videoUrl |-> r.video, thumbnailUrl |-> thumb,
                  status |-> "Scheduled", run |-> r.id]
      w1 == setAutoPilotPhase(w, "SCHEDULING")
      w2 == [w1 EXCEPT !.posts = <<newPost>> \o @]
      w3 == addLog(w2, "SchedulerAgent", "Success")
      w4 == setAutoPilotPhase(w3, "COOLDOWN")
      w5 == addLog(w4, "AutoPilot", "Success")
      id == w5.seq + 1
  IN  [EndRun(w5, r, <<"scheduled", r.pc>>) EXCEPT
         !.seq = id, !.ref = id,
         !.timers = @ \cup {[id |-> id, cfg |-> r.cfg]}]

\* step 6
Thumbnail(w, r) ==
  LET w1 == setAutoPilotPhase(w, "GENERATING_THUMBNAIL")
      w2 == addLog(w1, "ThumbnailAgent", "Success")
  IN  IF r.title
      THEN IF getGenAIInstance
           THEN Suspend(w2, r, "generateThumbnail")
           ELSE Scheduling(addLog(w2, "ThumbnailAgent", "Error"), r, FALSE)
      ELSE Scheduling(w1, r, FALSE)

\* ---- generation client: value returned for a provider outcome ------------
\* (the outcome is what retryOperation ends with: "ok", "empty" = a response
\* without the expected part, "error" = an error thrown to the caller)
generateTrends(out) == IF out = "error" THEN "fallback" ELSE "text"
generateText(out) == IF out = "error" THEN "error" ELSE "text"
generatePostTitle(out) == out = "ok"            \* TRUE: a non-empty title
generateImage(out) == out = "ok"                \* TRUE: a data URL, FALSE: null
generateVideo(out) == IF out = "ok" THEN "url" ELSE "throw"
generateThumbnail(out) ==
  CASE out = "ok" -> "url"
    [] out = "fallback_nokey" -> "throw"        \* generateImage(prompt, false) without a key
    [] OTHER -> "null"

\* ---- runAutoPilotCycle, resumed after each await --------------------------
\* after generateThumbnail
ResumeThumbnail(w, r, out) ==
  CASE generateThumbnail(out) = "url" ->
         Scheduling(addLog(w, "ThumbnailAgent", "Success"), r, TRUE)
    [] generateThumbnail(out) = "throw" ->
         Scheduling(addLog(w, "ThumbnailAgent", "Error"), r, FALSE)
    [] OTHER -> Scheduling(w, r, FALSE)

\* after generateVideo
ResumeVideo(w, r, out) ==
  IF generateVideo(out) = "url"
  THEN Thumbnail(addLog(w, "VideoAgent", "Success"), [r EXCEPT !.video = TRUE])
  ELSE Thumbnail(addLog(w, "VideoAgent", "Error"), r)

\* step 4 treating a null image as fatal
ResumeImage_AbortOnNull(w, r, out) ==
  IF generateImage(out)
  THEN Thumbnail(addLog(w, "ImageAgent", "Success"), [r EXCEPT !.img = TRUE])
  ELSE CycleCatch(w, r, "generateImage")

\* step 5 requesting a video whatever enableVideo says
ResumeImage_VideoAlways(w, r, out) ==
  IF generateImage(out)
  THEN LET r1 == [r EXCEPT !.img = TRUE]
           w1 == addLog(w, "ImageAgent", "Success")
           w2 == addLog(setAutoPilotPhase(w1, "GENERATING_VIDEO"),
                        "VideoAgent", "Success")
       IN  IF getGenAIInstance
           THEN Suspend(w2, r1, "generateVideo")
           ELSE Thumbnail(addLog(w2, "VideoAgent", "Error"), r1)
  ELSE Thumbnail(addLog(w, "ImageAgent", "Error"), r)

\* after generateImage: steps 4 (result) and 5
ResumeImage(w, r, out) ==
  IF generateImage(out)
  THEN LET r1 == [r EXCEPT !.img = TRUE]
           w1 == addLog(w, "ImageAgent", "Success")
           w2 == addLog(setAutoPilotPhase(w1, "GENERATING_VIDEO"),
                        "VideoAgent", "Success")
       IN  IF r.cfg.enableVideo
           THEN IF getGenAIInstance
                THEN Suspend(w2, r1, "generateVideo")
                ELSE Thumbnail(addLog(w2, "VideoAgent", "Error"), r1)
           ELSE Thumbnail(w1, r1)
  ELSE Thumbnail(addLog(w, "ImageAgent", "Error"), r)

\* after generateImagePromptFromContent: step 3 (result), step 4 (call)
ResumeImagePrompt(w, r, out) ==
  LET w1 == setAutoPilotPhase(addLog(w, "ImageAgent", "Success"),
                              "GENERATING_IMAGE")
  IN  IF getGenAIInstance THEN Suspend(w1, r, "generateImage")
                          ELSE CycleCatch(w1, r, "generateImage")

\* after generatePostTitle: step 2 (log), step 3 (call)
ResumeTitle(w, r, out) ==
  LET r1 == [r EXCEPT !.title = generatePostTitle(out)]
      w1 == setAutoPilotPhase(addLog(w, "ContentAgent", "Success"),
                              "ANALYZING_IMAGE_PROMPT")
  IN  IF getGenAIInstance THEN Suspend(w1, r1, "generateImagePromptFromContent")
                          ELSE CycleCatch(w1, r1, "generateImagePromptFromContent")

\* after generateText: title call
ResumeText(w, r, out) ==
  LET r1 == [r EXCEPT !.content = generateText(out)]
  IN  IF getGenAIInstance THEN Suspend(w, r1, "generatePostTitle")
                          ELSE CycleCatch(w, r1, "generatePostTitle")

\* after generateTrends: step 1 (result), step 2 (call)
ResumeTrends(w, r, out) ==
  LET r1 == [r EXCEPT !.trend = generateTrends(out)]
      w1 == setAutoPilotPhase(addLog(w, "TrendAgent", "Success"),
                              "GENERATING_CONTENT")
  IN  IF getGenAIInstance THEN Suspend(w1, r1, "generateText")
                          ELSE CycleCatch(w1, r1, "generateText")

\* runAutoPilotCycle up to its first await; cfg is the closure's config
runAutoPilotCycle(w, cfg) ==
  IF ~cfg.isActive THEN w
  ELSE LET id == w.started + 1
           r  == [id |-> id, pc |-> "start", cfg |-> cfg, trend |-> "",
                  content |-> "", title |-> FALSE, img |-> FALSE,
                  video |-> FALSE]
           w1 == [w EXCEPT !.started = id, !.ev = <<"begin", "">>]
           w2 == addLog(setAutoPilotPhase(w1, "SCANNING_TRENDS"),
                        "AutoPilot", "Success")
       IN  IF getGenAIInstance THEN Suspend(w2, r, "generateTrends")
                               ELSE CycleCatch(w2, r, "generateTrends")

\* ---- the start/stop effect: previous cleanup, then the body ---------------
EffectCleanup(w) == IF w.ref # NoTimer THEN clearTimeout(w, w.ref) ELSE w

\* the effect without its phase guard
EffectBody_NoGuard(w, cfg, phase) ==
  IF cfg.isActive
  THEN runAutoPilotCycle(w, cfg)
  ELSE LET w1 == IF w.ref # NoTimer
                 THEN [clearTimeout(w, w.ref) EXCEPT !.ref = NoTimer]
                 ELSE w
       IN  setAutoPilotPhase(w1, "IDLE")

\* the effect keeping the handle on deactivation
EffectBody_KeepHandle(w, cfg, phase) ==
  IF cfg.isActive
  THEN IF phase = "IDLE" THEN runAutoPilotCycle(w, cfg) ELSE w
  ELSE setAutoPilotPhase(w, "IDLE")

\* the effect waiting for the interval before the first run
EffectBody_DelayedStart(w, cfg, phase) ==
  IF cfg.isActive
  THEN IF phase = "IDLE"
       THEN LET id == w.seq + 1
            IN  [w EXCEPT !.seq = id, !.ref = id,
                          !.timers = @ \cup {[id |-> id, cfg |-> cfg]}]
       ELSE w
  ELSE LET w1 == IF w.ref # NoTimer
                 THEN [clearTimeout(w, w.ref) EXCEPT !.ref = NoTimer]
                 ELSE w
       IN  setAutoPilotPhase(w1, "IDLE")

\* the effect dropping the suspended runs on deactivation
EffectBody_Interrupt(w, cfg, phase) ==
  IF cfg.isActive
  THEN IF phase = "IDLE" THEN runAutoPilotCycle(w, cfg) ELSE w
  ELSE LET w1 == IF w.ref # NoTimer
                 THEN [clearTimeout(w, w.ref) EXCEPT !.ref = NoTimer]
                 ELSE w
       IN  setAutoPilotPhase([w1 EXCEPT !.runs = {}], "IDLE")

EffectBody(w, cfg, phase) ==
  IF cfg.isActive
  THEN IF phase = "IDLE" THEN runAutoPilotCycle(w, cfg) ELSE w
  ELSE LET w1 == IF w.ref # NoTimer
                 THEN [clearTimeout(w, w.ref) EXCEPT !.ref = NoTimer]
                 ELSE w
       IN  setAutoPilotPhase(w1, "IDLE")

StartStopEffect(w, cfg, phase) == EffectBody(EffectCleanup(w), cfg, phase)

\* ---- actions --------------------------------------------------------------
Step(act, pc, out, w) ==
  [act |-> act, pc |-> pc, out |-> out, ev |-> w.ev[1], stage |-> w.ev[2],
   sets |-> w.sets, cleared |-> w.cleared, logged |-> w.logged,
   run |-> w.run]

Apply(w, act, pc, out) ==
  /\ w.started <= MaxCycles
  /\ pendingPhase' = w.pend
  /\ autoPilotTimeoutRef' = w.ref
  /\ timers' = w.timers
  /\ timerSeq' = w.seq
  /\ runs' = w.runs
  /\ posts' = w.posts
  /\ logs' = w.logs
  /\ started' = w.started
  /\ aborted' = IF w.ev[1] = "abort" THEN TRUE
                ELSE IF act = "handleToggle" THEN FALSE ELSE aborted
  /\ last' = Step(act, pc, out, w)
  /\ UNCHANGED call

Init ==
  /\ autoPilotConfig = [isActive |-> FALSE, enableVideo |-> FALSE]
  /\ autoPilotPhase = "IDLE"
  /\ pendingPhase = NoPhase
  /\ autoPilotTimeoutRef = NoTimer
  /\ timers = {}
  /\ timerSeq = 0
  /\ runs = {}
  /\ posts = <<>>
  /\ logs = <<>>
  /\ storedKey \in BOOLEAN
  /\ envKey = FALSE      \* a build without VITE_API_KEY: the stored key decides
  /\ started = 0
  /\ clicks = 0
  /\ faults = 0
  /\ aborted = FALSE
  /\ last = Step("init", "", "", World)
  /\ call = NoCall

\* AutoPilotControls.handleToggle -> setAutoPilotConfig, render, effect
handleToggle ==
  /\ clicks < MaxClicks
  /\ clicks' = clicks + 1
  /\ autoPilotConfig' = [autoPilotConfig EXCEPT !.isActive = ~@]
  /\ Apply(StartStopEffect(World, autoPilotConfig', autoPilotPhase),
           "handleToggle", "", "")
  /\ UNCHANGED <<autoPilotPhase, storedKey, envKey, faults>>

\* AutoPilotControls.handleSave (button and inputs disabled while active):
\* a new config object with the same isActive
handleSave ==
  /\ clicks < MaxClicks
  /\ ~autoPilotConfig.isActive
  /\ clicks' = clicks + 1
  /\ Apply(StartStopEffect(World, autoPilotConfig, autoPilotPhase),
           "handleSave", "", "")
  /\ UNCHANGED <<autoPilotConfig, autoPilotPhase, storedKey, envKey, faults>>

\* AutoPilotControls.toggleVideo (checkbox disabled while active)
toggleVideo ==
  /\ clicks < MaxClicks
  /\ ~autoPilotConfig.isActive
  /\ clicks' = clicks + 1
  /\ autoPilotConfig' = [autoPilotConfig EXCEPT !.enableVideo = ~@]
  /\ Apply(StartStopEffect(World, autoPilotConfig', autoPilotPhase),
           "toggleVideo", "", "")
  /\ UNCHANGED <<autoPilotPhase, storedKey, envKey, faults>>

\* SettingsModal: the stored Gemini key is saved or cleared
setApiKey ==
  /\ clicks < MaxClicks
  /\ clicks' = clicks + 1
  /\ storedKey' = ~storedKey
  /\ last' = Step("setApiKey", "", "", [ev |-> <<"none", "">>, sets |-> <<>>,
                                            cleared |-> {}, logged |-> <<>>,
                                            run |-> NoRun])
  /\ UNCHANGED <<autoPilotConfig, autoPilotPhase, pendingPhase,
                 autoPilotTimeoutRef, timers, timerSeq, runs, posts, logs,
                 envKey, started, faults, aborted, call>>

\* React renders the queued phase update; the effect runs if the phase changed
Commit ==
  /\ pendingPhase # NoPhase
  /\ autoPilotPhase' = pendingPhase
  /\ LET w0 == [World EXCEPT !.pend = NoPhase]
     IN  Apply(IF pendingPhase # autoPilotPhase
               THEN StartStopEffect(w0, autoPilotConfig, pendingPhase)
               ELSE w0,
               "Commit", "", "")
  /\ UNCHANGED <<autoPilotConfig, storedKey, envKey, clicks, faults>>

\* window.setTimeout(() => { runAutoPilotCycle(); }, nextRunMs) fires
TimerFire ==
  \E t \in timers :
    /\ Apply(runAutoPilotCycle([World EXCEPT !.timers = @ \ {t}], t.cfg),
             "TimerFire", "", "")
    /\ UNCHANGED <<autoPilotConfig, autoPilotPhase, storedKey, envKey,
                   clicks, faults>>

Outcomes(pc) ==
  CASE pc \in {"generateTrends", "generateText", "generateVideo"} -> {"ok", "error"}
    [] pc = "generateThumbnail" ->
         {"ok", "empty", "error"}
           \cup (IF getGenAIInstance THEN {} ELSE {"fallback_nokey"})
    [] OTHER -> {"ok", "empty", "error"}

Resume(w, r, out) ==
  CASE r.pc = "generateTrends" -> ResumeTrends(w, r, out)
    [] r.pc = "generateText" -> ResumeText(w, r, out)
    [] r.pc = "generatePostTitle" -> ResumeTitle(w, r, out)
    [] r.pc = "generateImagePromptFromContent" -> ResumeImagePrompt(w, r, out)
    [] r.pc = "generateImage" -> ResumeImage(w, r, out)
    [] r.pc = "generateVideo" -> ResumeVideo(w, r, out)
    [] r.pc = "generateThumbnail" -> ResumeThumbnail(w, r, out)

\* a provider call of a suspended run settles and the run continues
Complete ==
  \E r \in runs : \E out \in Outcomes(r.pc) :
    /\ faults' = IF out = "ok" THEN faults ELSE faults + 1
    /\ faults' <= MaxFaults
    /\ Apply(Resume(World, r, out), "Complete", r.pc, out)
    /\ UNCHANGED <<autoPilotConfig, autoPilotPhase, storedKey, envKey, clicks>>

Next ==
  \/ handleToggle
  \/ handleSave
  \/ toggleVideo
  \/ setApiKey
  \/ Commit
  \/ TimerFire
  \/ Complete

Spec == Init /\ [][Next]_vars

\* ---- the activity log alone: a sequence of addLog calls ----------------------
\* the orchestrator at rest
Quiescent ==
  /\ autoPilotConfig = [isActive |-> FALSE, enableVideo |-> FALSE]
  /\ autoPilotPhase = "IDLE"
  /\ pendingPhase = NoPhase
  /\ autoPilotTimeoutRef = NoTimer
  /\ timers = {}
  /\ timerSeq = 0
  /\ runs = {}
  /\ posts = <<>>
  /\ started = 0
  /\ clicks = 0
  /\ faults = 0
  /\ aborted = FALSE
  /\ last = Step("init", "", "", World)

orchVars ==
  <<autoPilotConfig, autoPilotPhase, pendingPhase, autoPilotTimeoutRef,
    timers, timerSeq, runs, posts, started, faults, aborted, last>>

\* entries are identified by their position in the order of the addLog calls
LogInit ==
  /\ logs = <<>>
  /\ Quiescent
  /\ storedKey = FALSE
  /\ envKey = FALSE
  /\ call = [fn |-> "addLog", n |-> 0, by |-> ""]

\* addLog called by a step of runAutoPilotCycle
cycleAddLog ==
  /\ call.n < MaxAppends
  /\ logs' = pushLog(logs, call.n + 1)
  /\ call' = [call EXCEPT !.n = @ + 1, !.by = "cycle"]
  /\ UNCHANGED <<orchVars, clicks, storedKey, envKey>>

\* addLog called by a manual agent panel (passed down as a prop)
agentAddLog ==
  /\ call.n < MaxAppends
  /\ logs' = pushLog(logs, call.n + 1)
  /\ call' = [call EXCEPT !.n = @ + 1, !.by = "agent"]
  /\ UNCHANGED <<orchVars, clicks, storedKey, envKey>>

LogNext == cycleAddLog \/ agentAddLog

LogSpec == LogInit /\ [][LogNext]_vars

\* ---- retryOperation: one call, the operation failing or succeeding ----------
RetriesDefault == 10     \* retries: number = 10
DelayDefault == 5000     \* delay: number = 5000 (ms)
HintBufferMs == 2000     \* + 2000 (ms) added to the wait the provider asked for

\* Errors thrown by the operation.  status, code: the fields retryOperation
\* reads.  The message text is described by what the code looks for in it:
\*   json  - "none": no {...} in the text; "invalid": a {...} that JSON.parse
\*           rejects; "valid": a {...} that parses
\*   field - where the parsed object carries a message: "error.message",
\*           "message", or "none"
\*   outer - rate-limit words in the text outside that inner message
\*   inner - rate-limit words in the inner message (the whole text if no JSON)
\*   hint  - "retry in N s" in the inner message: has, and N in microseconds
RateWords == {"429", "Too Many Requests", "RESOURCE_EXHAUSTED", "quota"}

HintMicros == {0, 1200400, 3500000}

Hints ==
  {[has |-> FALSE, us |-> 0]} \cup {[has |-> TRUE, us |-> u] : u \in HintMicros}

Messages ==
  {[json |-> "none", field |-> "none", outer |-> {}, inner |-> i, hint |-> h] :
     i \in {{}, {"quota"}, {"429"}}, h \in Hints}
  \cup
  {[json |-> "valid", field |-> f, outer |-> o, inner |-> i, hint |-> h] :
     f \in {"error.message", "message", "none"},
     o \in {{}, {"429"}, {"RESOURCE_EXHAUSTED"}},
     i \in {{}, {"quota"}, {"Too Many Requests"}}, h \in Hints}
  \cup
  {[json |-> "invalid", field |-> "none", outer |-> o, inner |-> i, hint |-> h] :
     o \in {{}, {"429"}}, i \in {{}, {"quota"}}, h \in Hints}

Errors ==
  {[status |-> sc[1], code |-> sc[2], msg |-> m] :
     sc \in {<<"none", 0>>, <<"429", 0>>, <<"RESOURCE_EXHAUSTED", 0>>,
             <<"none", 429>>},
     m \in Messages}

NoError ==
  [status |-> "none", code |-> 0,
   msg |-> [json |-> "none", field |-> "none", outer |-> {}, inner |-> {},
            hint |-> [has |-> FALSE, us |-> 0]]]

\* 1. the detailed error message: the parsed inner message when there is one
errorMessage(e) ==
  IF e.msg.json = "valid" /\ e.msg.field # "none"
  THEN [words |-> e.msg.inner, hint |-> e.msg.hint]
  ELSE [words |-> e.msg.outer \cup e.msg.inner, hint |-> e.msg.hint]

\* 2. rate-limit detection
isRateLimit(e) ==
  \/ e.status = "429"
  \/ e.code = 429
  \/ "429" \in errorMessage(e).words
  \/ "Too Many Requests" \in errorMessage(e).words
  \/ e.status = "RESOURCE_EXHAUSTED"
  \/ "RESOURCE_EXHAUSTED" \in errorMessage(e).words
  \/ "quota" \in errorMessage(e).words

RECURSIVE Pow(_, _)
Pow(b, n) == IF n = 0 THEN 1 ELSE b * Pow(b, n - 1)

\* 3. the wait before the next attempt, in ms as the fraction num/den:
\* Math.ceil(parseFloat(N) * 1000) + 2000 with a hint, delay * 1.5^attempt
\* without
waitTime(e, attempt) ==
  IF errorMessage(e).hint.has
  THEN [hinted |-> TRUE,
        num |-> ((errorMessage(e).hint.us + 999) \div 1000) + HintBufferMs,
        den |-> 1]
  ELSE [hinted |-> FALSE, num |-> DelayDefault * Pow(3, attempt),
        den |-> Pow(2, attempt)]

\* a budget that is one attempt short
attemptsRemain_OffByOne(attempt, retries) == attempt + 1 < retries

\* a budget that never runs out inside the loop
attemptsRemain_Always(attempt, retries) == TRUE

\* attempt < retries
attemptsRemain(attempt, retries) == attempt < retries

NoWait == [hinted |-> FALSE, num |-> 0, den |-> 1]

RetryInit ==
  /\ logs = <<>>
  /\ Quiescent
  /\ storedKey = FALSE
  /\ envKey = FALSE
  /\ call = [fn |-> "retryOperation", attempt |-> 0, invocations |-> 0,
             waits |-> 0, lastWait |-> NoWait, status |-> "running",
             err |-> NoError, thrown |-> NoError]

\* return await operation()
operationReturns ==
  /\ call.status = "running"
  /\ call' = [call EXCEPT !.invocations = @ + 1, !.status = "returned"]
  /\ UNCHANGED <<orchVars, logs, clicks, storedKey, envKey>>

\* catch (error): wait and go round the loop again, or throw error; leaving
\* the loop throws lastError
catchError(c, e) ==
  IF isRateLimit(e) /\ attemptsRemain(c.attempt, RetriesDefault)
  THEN [c EXCEPT !.invocations = @ + 1, !.err = e,
                 !.waits = @ + 1,
                 !.lastWait = waitTime(e, c.attempt),
                 !.attempt = @ + 1,
                 !.status = IF c.attempt + 1 <= RetriesDefault
                            THEN "running" ELSE "thrown",
                 !.thrown = IF c.attempt + 1 <= RetriesDefault
                            THEN NoError ELSE e]
  ELSE [c EXCEPT !.invocations = @ + 1, !.err = e,
                 !.status = "thrown", !.thrown = e]

\* the operation throws
operationThrows ==
  \E e \in Errors :
    /\ call.status = "running"
    /\ call' = catchError(call, e)
    /\ UNCHANGED <<orchVars, logs, clicks, storedKey, envKey>>

RetryNext == operationReturns \/ operationThrows

RetrySpec == RetryInit /\ [][RetryNext]_vars

\* ---- retryOperation: the waits of one call -----------------------------------
\* errors told apart by their hint only: classified as rate-limit by their
\* status, or not rate-limit at all
BackoffErrors ==
  {[status |-> st, code |-> 0,
    msg |-> [json |-> "none", field |-> "none", outer |-> {}, inner |-> {},
             hint |-> h]] : st \in {"429", "none"}, h \in Hints}

\* (unhinted: the waits so far that used the exponential delay)
BackoffInit ==
  /\ logs = <<>>
  /\ Quiescent
  /\ storedKey = FALSE
  /\ envKey = FALSE
  /\ call = [fn |-> "retryOperation", attempt |-> 0, invocations |-> 0,
             waits |-> 0, unhinted |-> 0, lastWait |-> NoWait,
             status |-> "running", err |-> NoError, thrown |-> NoError]

backoffThrows ==
  \E e \in BackoffErrors :
    /\ call.status = "running"
    /\ call' = [catchError(call, e) EXCEPT
                  !.unhinted = IF /\ catchError(call, e).waits > call.waits
                                  /\ ~waitTime(e, call.attempt).hinted
                               THEN @ + 1 ELSE @]
    /\ UNCHANGED <<orchVars, logs, clicks, storedKey, envKey>>

BackoffNext == operationReturns \/ backoffThrows

BackoffSpec == BackoffInit /\ [][BackoffNext]_vars

\* ---- Generation Client functions: key resolution, requests, result ----------
ClientFunctions ==
  {"generateText", "suggestContentTopics", "suggestRelatedNiches",
   "getDeepTopicAnalysis", "generatePostTitle",
   "generateImagePromptFromContent", "generateVideoPromptFromContent",
   "generateComment", "generateThumbnail", "generateImage", "generateVideo",
   "generateTrends", "analyzeSentimentAndReply"}

ImageFunctions == {"generateThumbnail", "generateImage"}

\* the key getGenAIInstance builds the client with
resolveKey ==
  IF storedKey THEN "stored" ELSE IF envKey THEN "env" ELSE "missing"

\* the model of the first request: the premium image model for
\* generateThumbnail and for generateImage(prompt, true)
firstModel(name, hq) ==
  CASE name = "generateThumbnail" -> "premium"
    [] name = "generateImage" -> IF hq THEN "premium" ELSE "standard"
    [] name = "generateVideo" -> "video"
    [] OTHER -> "text"

\* catch (error) { if (error instanceof ApiKeyError) throw error; ... }
rethrowsApiKeyError(name) ==
  name \notin {"suggestRelatedNiches", "generateVideoPromptFromContent"}

\* what the function's catch makes of an error that is not an ApiKeyError
onProviderError(name) ==
  CASE name \in ImageFunctions -> "null"
    [] name = "generateVideo" -> "error"
    [] OTHER -> "fallback"

\* what the function's catch makes of ApiKeyError('MISSING')
onMissingKey(name) ==
  IF rethrowsApiKeyError(name) THEN "ApiKeyError" ELSE "fallback"

\* a fallback that also fires for the standard model
fallsBack_AnyModel(model, out) == out = "billing"

\* the premium request failed with 404 / PERMISSION_DENIED: fall back to
\* generateImage(prompt, false)
fallsBack(model, out) == model = "premium" /\ out = "billing"

IdleCall ==
  [fn |-> "client", name |-> "", hq |-> FALSE, stage |-> "idle",
   requests |-> <<>>, outs |-> <<>>, keys |-> <<>>, result |-> ""]

ClientInit ==
  /\ logs = <<>>
  /\ Quiescent
  /\ storedKey \in BOOLEAN
  /\ envKey \in BOOLEAN
  /\ call = IdleCall

\* a caller invokes a client function: getGenAIInstance, then the request
clientCall ==
  \E name \in ClientFunctions, hq \in BOOLEAN :
    /\ call.stage = "idle"
    /\ hq => name = "generateImage"
    /\ call' =
         IF resolveKey = "missing"
         THEN [call EXCEPT !.name = name, !.hq = hq, !.stage = "done",
                           !.keys = <<"missing">>,
                           !.result = onMissingKey(name)]
         ELSE [call EXCEPT !.name = name, !.hq = hq, !.stage = "request",
                           !.keys = <<resolveKey>>,
                           !.requests = <<firstModel(name, hq)>>]
    /\ UNCHANGED <<orchVars, logs, clicks, storedKey, envKey>>

\* the request (under retryOperation) settles: "ok", "empty" (a response
\* without the expected part), "billing" (an error whose message has 404 or
\* PERMISSION_DENIED), "error" (any other error)
requestSettles ==
  \E out \in {"ok", "empty", "billing", "error"} :
    /\ call.stage = "request"
    /\ LET model == call.requests[Len(call.requests)]
           c1 == [call EXCEPT !.outs = Append(@, out)]
       IN  call' =
             CASE out = "ok" /\ call.name = "generateVideo" ->
                    \* the download resolves the key again
                    [c1 EXCEPT !.stage = "done", !.keys = Append(@, resolveKey),
                               !.result = IF resolveKey = "missing"
                                          THEN "ApiKeyError" ELSE "value"]
               [] out = "ok" /\ call.name # "generateVideo" ->
                    [c1 EXCEPT !.stage = "done", !.result = "value"]
               [] out = "empty" ->
                    [c1 EXCEPT !.stage = "done",
                               !.result = IF call.name \in ImageFunctions
                                          THEN "null"
                                          ELSE onProviderError(call.name)]
               [] out \in {"billing", "error"}
                    /\ call.name \in ImageFunctions /\ fallsBack(model, out) ->
                    IF resolveKey = "missing"
                    THEN [c1 EXCEPT !.stage = "done",
                                    !.keys = Append(@, "missing"),
                                    !.result = "ApiKeyError"]
                    ELSE [c1 EXCEPT !.keys = Append(@, resolveKey),
                                    !.requests = Append(@, "standard")]
               [] OTHER ->
                    [c1 EXCEPT !.stage = "done",
                               !.result = onProviderError(call.name)]
    /\ UNCHANGED <<orchVars, logs, clicks, storedKey, envKey>>

\* the caller has the result; the client is ready for the next call
clientReturn ==
  /\ call.stage = "done"
  /\ call' = IdleCall
  /\ UNCHANGED <<orchVars, logs, clicks, storedKey, envKey>>

\* the stored key is saved or cleared in Settings, at any moment
clientSetApiKey ==
  /\ clicks < MaxClicks
  /\ clicks' = clicks + 1
  /\ storedKey' = ~storedKey
  /\ UNCHANGED <<orchVars, logs, envKey, call>>

ClientNext == clientCall \/ requestSettles \/ clientReturn \/ clientSetApiKey

ClientSpec == ClientInit /\ [][ClientNext]_vars

\* ---- generateVideo: the request payload ---------------------------------------
VideoConfigs ==
  [model : {"veo-3.1-fast-generate-preview", "veo-3.1-generate-preview"},
   resolution : {"720p", "1080p"},
   aspectRatio : {"16:9", "9:16"}]

NoImage == 0      \* payload.image not set

\* images.slice(0, 3)
slice3(images) == SubSeq(images, 1, Min(Len(images), 3))

\* a payload keeping the first four reference images
videoPayload_Slice4(images, config) ==
  LET payload == [model |-> config.model, resolution |-> config.resolution,
                  aspectRatio |-> config.aspectRatio, image |-> NoImage,
                  referenceImages |-> <<>>]
  IN  IF Len(images) > 1
      THEN [payload EXCEPT !.model = "veo-3.1-generate-preview",
                           !.resolution = "720p", !.aspectRatio = "16:9",
                           !.referenceImages =
                              SubSeq(images, 1, Min(Len(images), 4))]
      ELSE IF Len(images) = 1
           THEN [payload EXCEPT !.image = images[1]]
           ELSE payload

\* the payload passed to ai.models.generateVideos
videoPayload(images, config) ==
  LET payload == [model |-> config.model, resolution |-> config.resolution,
                  aspectRatio |-> config.aspectRatio, image |-> NoImage,
                  referenceImages |-> <<>>]
  IN  IF Len(images) > 1
      THEN [payload EXCEPT !.model = "veo-3.1-generate-preview",
                           !.resolution = "720p", !.aspectRatio = "16:9",
                           !.referenceImages = slice3(images)]
      ELSE IF Len(images) = 1
           THEN [payload EXCEPT !.image = images[1]]
           ELSE payload

NoVideoCall ==
  [fn |-> "generateVideo", stage |-> "idle", images |-> <<>>,
   config |-> [model |-> "", resolution |-> "", aspectRatio |-> ""],
   payload |-> [model |-> "", resolution |-> "", aspectRatio |-> "",
                image |-> NoImage, referenceImages |-> <<>>]]

VideoInit ==
  /\ logs = <<>>
  /\ Quiescent
  /\ storedKey \in BOOLEAN
  /\ envKey \in BOOLEAN
  /\ call = NoVideoCall

\* generateVideo(prompt, images, config) up to the request; the images are
\* numbered in the order given
videoCall ==
  \E n \in 0..MaxImages, config \in VideoConfigs :
    /\ call.stage = "idle"
    /\ call' =
         IF getGenAIInstance
         THEN [call EXCEPT !.stage = "sent", !.images = [i \in 1..n |-> i],
                           !.config = config,
                           !.payload = videoPayload([i \in 1..n |-> i], config)]
         ELSE [call EXCEPT !.stage = "ApiKeyError",
                           !.images = [i \in 1..n |-> i], !.config = config]
    /\ UNCHANGED <<orchVars, logs, clicks, storedKey, envKey>>

\* the call ends (a video URL or an error)
videoReturn ==
  /\ call.stage # "idle"
  /\ call' = NoVideoCall
  /\ UNCHANGED <<orchVars, logs, clicks, storedKey, envKey>>

VideoNext == videoCall \/ videoReturn

VideoSpec == VideoInit /\ [][VideoNext]_vars

\* ---- the post collection: creations, the auto-post timer, manual edits -------
\* a post here is [id, status, scheduledTime, by]: id is the clock value read
\* by Date.now() at creation, scheduledTime an instant on the same clock
\* (by: "cycle" or "manual", kept for the properties)
NoPost == -1      \* editingPostId = null
NoTime == -1      \* editTimeValue = ''

schedVars ==
  <<autoPilotConfig, autoPilotPhase, pendingPhase, autoPilotTimeoutRef,
    timers, timerSeq, runs, started, faults, aborted, last, clicks,
    storedKey, envKey>>

Times == 0..(MaxNow + 1)

SchedulerLog == [agent |-> "SchedulerAgent", status |-> "Success"]

\* prev.map(p => p.id === postId ? {...p, status} : p)
setStatus(prev, postId, status) ==
  [i \in 1..Len(prev) |->
     IF prev[i].id = postId THEN [prev[i] EXCEPT !.status = status]
                            ELSE prev[i]]

\* prev.map(p => p.id === postId ? {...p, scheduledTime} : p)
setScheduledTime(prev, postId, t) ==
  [i \in 1..Len(prev) |->
     IF prev[i].id = postId THEN [prev[i] EXCEPT !.scheduledTime = t]
                            ELSE prev[i]]

\* the ids of the posts that are Scheduled and due
duePosts(ps, now) ==
  {ps[i].id : i \in {j \in 1..Len(ps) :
                       ps[j].status = "Scheduled" /\ ps[j].scheduledTime <= now}}

\* currentPosts.map(post => duePosts.some(p => p.id === post.id) ? Posted : post)
postDue(currentPosts, due) ==
  [i \in 1..Len(currentPosts) |->
     IF currentPosts[i].id \in due
     THEN [currentPosts[i] EXCEPT !.status = "Posted"]
     ELSE currentPosts[i]]

SchedulerInit ==
  /\ logs = <<>>
  /\ Quiescent
  /\ storedKey = FALSE
  /\ envKey = FALSE
  /\ call \in {[fn |-> "scheduler", now |-> 0, isAutoMode |-> m,
                 editingPostId |-> NoPost, editTimeValue |-> NoTime] :
                  m \in BOOLEAN}

\* the clock advances by one millisecond
tick ==
  /\ call.now < MaxNow
  /\ call' = [call EXCEPT !.now = @ + 1]
  /\ UNCHANGED <<schedVars, posts, logs>>

\* runAutoPilotCycle, steps 7: newPost with id Date.now(), due ten minutes on
cyclePost ==
  /\ Len(posts) < MaxPosts
  /\ posts' = <<[id |-> call.now, status |-> "Scheduled",
                 scheduledTime |-> MaxNow + 1, by |-> "cycle"]>> \o posts
  /\ logs' = pushLog(logs, SchedulerLog)
  /\ UNCHANGED <<schedVars, call>>

\* SchedulerAgent.handleSchedule with the time chosen in the form
handleSchedule ==
  \E t \in Times :
    /\ Len(posts) < MaxPosts
    /\ posts' = <<[id |-> call.now, status |-> "Scheduled",
                   scheduledTime |-> t, by |-> "manual"]>> \o posts
    /\ logs' = pushLog(logs, SchedulerLog)
    /\ UNCHANGED <<schedVars, call>>

\* the 3-second interval callback of the auto-post effect
autoPost ==
  /\ call.isAutoMode
  /\ duePosts(posts, call.now) # {}
  /\ posts' = postDue(posts, duePosts(posts, call.now))
  /\ logs' = pushLog(logs, SchedulerLog)
  /\ UNCHANGED <<schedVars, call>>

\* the buttons "post now" / "cancel", rendered for a post that is Scheduled
handleUpdateStatus ==
  \E i \in 1..Len(posts), newStatus \in {"Posted", "Failed"} :
    /\ posts[i].status = "Scheduled"
    /\ posts' = setStatus(posts, posts[i].id, newStatus)
    /\ logs' = pushLog(logs, SchedulerLog)
    /\ UNCHANGED <<schedVars, call>>

\* the reschedule button, rendered for a Scheduled post that is not edited;
\* the edit field starts at the post's time, or at now when it does not parse
startRescheduling ==
  \E i \in 1..Len(posts), t \in Times :
    /\ posts[i].status = "Scheduled"
    /\ call.editingPostId # posts[i].id
    /\ t \in {posts[i].scheduledTime, call.now}
    /\ call' = [call EXCEPT !.editingPostId = posts[i].id,
                            !.editTimeValue = t]
    /\ UNCHANGED <<schedVars, posts, logs>>

\* the datetime input of the post being edited
setEditTimeValue ==
  \E t \in Times \cup {NoTime} :
    /\ \E i \in 1..Len(posts) : posts[i].id = call.editingPostId
    /\ t # call.editTimeValue
    /\ call' = [call EXCEPT !.editTimeValue = t]
    /\ UNCHANGED <<schedVars, posts, logs>>

\* the save button, rendered for the post being edited whatever its status
saveReschedule ==
  \E i \in 1..Len(posts) :
    /\ posts[i].id = call.editingPostId
    /\ call.editTimeValue # NoTime
    /\ posts' = setScheduledTime(posts, posts[i].id, call.editTimeValue)
    /\ logs' = pushLog(logs, SchedulerLog)
    /\ call' = [call EXCEPT !.editingPostId = NoPost]
    /\ UNCHANGED schedVars

cancelReschedule ==
  /\ \E i \in 1..Len(posts) : posts[i].id = call.editingPostId
  /\ call' = [call EXCEPT !.editingPostId = NoPost, !.editTimeValue = NoTime]
  /\ UNCHANGED <<schedVars, posts, logs>>

SchedulerNext ==
  \/ tick
  \/ cyclePost
  \/ handleSchedule
  \/ autoPost
  \/ handleUpdateStatus
  \/ startRescheduling
  \/ setEditTimeValue
  \/ saveReschedule
  \/ cancelReschedule

SchedulerSpec == SchedulerInit /\ [][SchedulerNext]_vars

\* ---- properties ------------------------------------------------------------
isActive == autoPilotConfig.isActive

\* the steps in which React may run the start/stop effect
EffectActs == {"handleToggle", "handleSave", "toggleVideo", "Commit"}

OptionalStages ==
  {"generatePostTitle", "generateImage", "generateVideo", "generateThumbnail"}

AutoPilotError == [agent |-> "AutoPilot", status |-> "Error"]

\* C1: at most one runAutoPilotCycle execution is in flight at any time.
C1_AtMostOneRun == Cardinality(runs) <= 1

\* C2: no cycle begins (no execution passes the isActive guard, no trend
\* request is issued) in a step that ends with config.isActive false.
C2_NoCycleWhileInactive == [][~isActive' => started' = started]_vars

\* C3: while isActive stays true, an armed cooldown timer stays pending until
\* it fires, and its firing starts the next cycle.
C3_TimerPendingUntilFired ==
  [][(isActive /\ isActive') =>
       \A t \in timers :
          \/ t \in timers'
          \/ last'.act = "TimerFire" /\ started' = started + 1]_vars

\* C4 (as claimed): after a hard abort, with isActive still true, no new
\* cycle starts until isActive is toggled.
C4_NoCycleAfterAbort ==
  [][(aborted /\ isActive /\ isActive') => started' = started]_vars

\* C4 (amended): a hard abort arms no cooldown timer and leaves the handle
\* alone; after it, with isActive still true, a new cycle is started without
\* any toggle by the start/stop effect when the reset to Idle is rendered as a
\* phase change, and otherwise only by a timer that another run armed.
C4_AbortArmsNoTimer ==
  [][/\ last'.ev = "abort" =>
          /\ timers' \subseteq timers
          /\ timerSeq' = timerSeq
          /\ autoPilotTimeoutRef' = autoPilotTimeoutRef
     /\ (aborted /\ isActive /\ isActive' /\ started' # started) =>
          last'.act \in {"Commit", "TimerFire"}
     /\ (/\ last'.act = "Commit" /\ isActive
         /\ pendingPhase = "IDLE" /\ autoPilotPhase # "IDLE") =>
          started' = started + 1]_vars

C4_Witness ==
  /\ aborted /\ isActive
  /\ last.act = "Commit" /\ last.ev \in {"begin", "abort"}

C6_ActivationStartsCycle ==
  [][(~isActive /\ isActive' /\ autoPilotPhase = "IDLE") =>
       /\ started' = started + 1
       /\ last'.sets # <<>> /\ Head(last'.sets) = "SCANNING_TRENDS"
       /\ timers' \subseteq timers]_vars

C6_Witness ==
  /\ last.act = "handleToggle" /\ last.ev = "begin"
  /\ pendingPhase = "SCANNING_TRENDS" /\ autoPilotPhase = "IDLE"

\* C7: when the effect runs with isActive true and a rendered phase other than
\* Idle, it does not call runAutoPilotCycle.
C7_NoStartUnlessIdle ==
  [][(last'.act \in EffectActs /\ isActive' /\ autoPilotPhase' # "IDLE") =>
       started' = started]_vars

C7_Witness ==
  /\ last.act = "Commit" /\ isActive /\ autoPilotPhase = "COOLDOWN"
  /\ last.cleared # {}

\* C8: a run in flight is never interrupted, whatever isActive is: it leaves
\* flight only in a step of its own that appends its post (Scheduling) or
\* hard-aborts, and a deactivation leaves the suspended runs as they are.
C8_RunNotInterrupted ==
  [][/\ \A r \in runs :
          \/ \E x \in runs' : x.id = r.id
          \/ /\ last'.act = "Complete"
             /\ \/ last'.ev = "scheduled" /\ Len(posts') = Len(posts) + 1
                \/ last'.ev = "abort" /\ posts' = posts
     /\ (isActive /\ ~isActive') => runs' = runs]_vars

C8_Witness ==
  /\ ~isActive /\ last.act = "Complete" /\ last.ev = "scheduled"

\* C9: a provider failure of the trend scan or of the content generation
\* aborts the cycle: no post, phase reset to Idle, an Error entry of AutoPilot.
C9_MandatoryFailureAborts ==
  [][(/\ last'.act = "Complete"
      /\ last'.pc \in {"generateTrends", "generateText"}
      /\ last'.out = "error") =>
       /\ last'.ev = "abort"
       /\ posts' = posts
       /\ pendingPhase' = "IDLE"
       /\ Head(logs') = AutoPilotError]_vars

\* C10: a failure in an optional stage (title, image, video, thumbnail),
\* a credential error included, never aborts the cycle.
C10_OptionalFailureNeverAborts ==
  last.ev = "abort" => last.stage \notin OptionalStages

\* number of entries of one agent and status among those a task appended
CountLog(entries, agent, status) ==
  Cardinality({i \in 1..Len(entries) :
                 entries[i] = [agent |-> agent, status |-> status]})

\* C11: a cycle whose generateImage returns null is not aborted; it logs one
\* Error entry of the image stage, keeps image and video unset, goes on to the
\* thumbnail stage, and its Scheduling step appends exactly one post with
\* imageUrl and videoUrl unset and status Scheduled, with one Success entry of
\* the scheduler and no further image entry.
C11_NullImageStillPosts ==
  [][/\ (last'.act = "Complete" /\ last'.pc = "generateImage"
                                /\ last'.out # "ok") =>
          /\ last'.ev # "abort"
          /\ ~last'.run.img /\ ~last'.run.video
          /\ CountLog(last'.logged, "ImageAgent", "Error") = 1
          /\ CountLog(last'.logged, "ImageAgent", "Success") = 0
          /\ \/ last'.ev = "scheduled"
             \/ last'.run.pc = "generateThumbnail" /\ last'.run \in runs'
     /\ (last'.act = "Complete" /\ last'.pc = "generateThumbnail") =>
          /\ last'.ev = "scheduled"
          /\ CountLog(last'.logged, "ImageAgent", "Error") = 0
     /\ (last'.ev = "scheduled" /\ ~last'.run.img) =>
          /\ Len(posts') = Len(posts) + 1
          /\ ~Head(posts').imageUrl /\ ~Head(posts').videoUrl
          /\ Head(posts').status = "Scheduled"
          /\ CountLog(last'.logged, "SchedulerAgent", "Success") = 1]_vars

C11_Witness ==
  /\ last.act = "Complete" /\ last.ev = "scheduled" /\ ~last.run.img
  /\ posts # <<>> /\ ~Head(posts).imageUrl

\* the agent name under which a stage of the cycle logs
StageAgent(pc) ==
  CASE pc = "generateTrends" -> "TrendAgent"
    [] pc \in {"generateText", "generatePostTitle"} -> "ContentAgent"
    [] pc \in {"generateImagePromptFromContent", "generateImage"} -> "ImageAgent"
    [] pc = "generateVideo" -> "VideoAgent"
    [] pc = "generateThumbnail" -> "ThumbnailAgent"
    [] OTHER -> "AutoPilot"

ErrorEntries(entries) == {i \in 1..Len(entries) : entries[i].status = "Error"}

\* C12: a provider call of any stage that ends with an error makes the cycle
\* append exactly one Error entry, under the agent of the failed stage or, for
\* a fatal failure, under AutoPilot.
C12_OneErrorEntryPerFailure ==
  [][(last'.act = "Complete" /\ last'.out = "error") =>
       /\ Cardinality(ErrorEntries(last'.logged)) = 1
       /\ \A i \in ErrorEntries(last'.logged) :
             last'.logged[i].agent \in {StageAgent(last'.pc), "AutoPilot"}]_vars

\* the phases a task passed to setAutoPilotPhase
PhasesSet(step) == {step.sets[i] : i \in 1..Len(step.sets)}

\* C13: a run sets the GeneratingVideo phase, or waits for a video, only if
\* its enableVideo is true and its image was produced; a post carries a video
\* only then; a failed video request leaves the video unset, does not abort,
\* and the run goes on to the thumbnail stage or to Scheduling.
C13_VideoOnlyWhenEnabled ==
  [][/\ ("GENERATING_VIDEO" \in PhasesSet(last') \/ last'.run.pc = "generateVideo") =>
          last'.run.cfg.enableVideo /\ last'.run.img
     /\ \A r \in runs' : r.pc = "generateVideo" => r.cfg.enableVideo /\ r.img
     /\ last'.ev = "scheduled" =>
          /\ Head(posts').videoUrl = last'.run.video
          /\ last'.run.video => last'.run.cfg.enableVideo /\ last'.run.img
     /\ (last'.act = "Complete" /\ last'.pc = "generateVideo"
                                /\ last'.out # "ok") =>
          /\ last'.ev # "abort" /\ ~last'.run.video
          /\ \/ last'.ev = "scheduled" /\ ~Head(posts').videoUrl
             \/ last'.run.pc = "generateThumbnail" /\ last'.run \in runs']_vars

C13_Witness ==
  /\ last.act = "Complete" /\ last.pc = "generateVideo" /\ last.out = "error"
  /\ last.run.cfg.enableVideo /\ ~last.run.video

\* the number of entries the log retains
LogCap == LogKeep + 1

\* C14: after k addLog calls the log holds exactly the min(k, 50) entries
\* appended last, newest first; it never holds more than 50, and from the
\* 51st call on the entry appended first is absent.
C14_LogHoldsNewest50 ==
  /\ Len(logs) = Min(call.n, 50)
  /\ \A i \in 1..Len(logs) : logs[i] = call.n - i + 1
  /\ Len(logs) <= LogCap
  /\ call.n >= 51 => \A i \in 1..Len(logs) : logs[i] # 1

C14_Witness == call.fn = "addLog" /\ call.n = 51 /\ Len(logs) = 50

\* C15: the Scheduling step of a run adds exactly one post, its own, at the
\* head of the collection and leaves the stored posts as they were, in the
\* same order; an abort, and every other step, leaves the collection unchanged.
C15_SchedulingPrependsOnePost ==
  [][/\ last'.ev = "scheduled" =>
          /\ Len(posts') = Len(posts) + 1
          /\ Head(posts').run = last'.run.id
          /\ Head(posts').content = last'.run.content
          /\ Tail(posts') = posts
     /\ last'.ev # "scheduled" => posts' = posts]_vars

C15_Witness ==
  /\ last.ev = "scheduled" /\ Len(posts) = 2
  /\ posts[1].run # posts[2].run

CarriesRateSignal(e) ==
  \/ e.status \in {"429", "RESOURCE_EXHAUSTED"}
  \/ e.code = 429
  \/ (e.msg.outer \cup e.msg.inner) \cap RateWords # {}

\* C17: when the operation fails with a rate-limit error whose message
\* carries "retry in N s", directly or in the message of a JSON payload, and
\* attempts remain, the call waits ceil(N * 1000) + 2000 ms (not the
\* exponential delay) and goes on; N = 3.5 gives 5500 ms.
C17_HintedWait ==
  [][(/\ call.status = "running"
      /\ call'.invocations = call.invocations + 1
      /\ call'.status # "returned"
      /\ CarriesRateSignal(call'.err) /\ call'.err.msg.hint.has
      /\ call.attempt < RetriesDefault) =>
       /\ call'.status = "running"
       /\ call'.waits = call.waits + 1
       /\ call'.lastWait.hinted /\ call'.lastWait.den = 1
       /\ call'.lastWait.num =
            ((call'.err.msg.hint.us + 999) \div 1000) + HintBufferMs]_vars

\* C18: a failure that is not classified as rate-limit, or a rate-limited
\* one with no attempt left, ends the call at once with that very error:
\* no wait is added and the operation is not invoked again.
C18_RethrowWithoutWait ==
  [][/\ (/\ call.status = "running"
         /\ call'.invocations = call.invocations + 1
         /\ call'.status # "returned"
         /\ ~isRateLimit(call'.err) \/ call.attempt = RetriesDefault) =>
          /\ call'.status = "thrown"
          /\ call'.thrown = call'.err
          /\ call'.waits = call.waits
     /\ call.status # "running" => call' = call]_vars

C18_Witness ==
  /\ call.fn = "retryOperation" /\ call.status = "thrown"
  /\ isRateLimit(call.thrown) /\ call.waits = RetriesDefault

\* the image call under study and the number of its last request
ImageCall == call.fn = "client" /\ call.name \in ImageFunctions

\* the fallback call found no key: it threw before any second request
FallbackWithoutKey ==
  Len(call.keys) = 2 /\ call.keys[2] = "missing"

\* C19: a premium image request (generateThumbnail, generateImage in high
\* quality) that fails with a billing/permission error is followed by exactly
\* one request on the standard model, unless the fallback call finds no key,
\* in which case no second request is made and ApiKeyError reaches the
\* caller; a standard request is never followed by another; so at most two
\* requests are made, and a failed last request gives null.
C19_SingleFallback ==
  ImageCall =>
     /\ call.requests \in {<<>>, <<"premium">>, <<"standard">>,
                            <<"premium", "standard">>}
     /\ Len(call.requests) = 2 => call.outs[1] = "billing"
     /\ (/\ call.stage = "done" /\ call.outs # <<>>
         /\ call.requests[1] = "premium" /\ call.outs[1] = "billing") =>
          IF FallbackWithoutKey
          THEN Len(call.requests) = 1 /\ call.result = "ApiKeyError"
          ELSE Len(call.requests) = 2
     /\ (/\ call.stage = "done" /\ call.outs # <<>>
         /\ ~FallbackWithoutKey /\ call.outs[Len(call.outs)] # "ok") =>
          call.result = "null"

C19_Witness ==
  /\ ImageCall /\ call.name = "generateImage" /\ call.stage = "done"
  /\ call.requests = <<"premium", "standard">>
  /\ call.outs = <<"billing", "billing">> /\ call.result = "null"

\* C19 as stated: every premium request that fails with a billing/permission
\* error is followed by a request on the standard model, and every failure
\* ends in null.
C19_AlwaysRetriedOrNull ==
  (/\ ImageCall /\ call.stage = "done" /\ call.outs # <<>>
   /\ call.outs[Len(call.outs)] # "ok") =>
     /\ (call.requests[1] = "premium" /\ call.outs[1] = "billing") =>
          call.requests = <<"premium", "standard">>
     /\ call.result = "null"

\* C20: every client call resolves the key when it is called, the stored key
\* first and the environment key otherwise; with neither it makes no request
\* and ends with ApiKeyError, not with a fallback value.
C20_MissingKeyReachesCaller ==
  (call.fn = "client" /\ call.stage # "idle") =>
     /\ call.keys # <<>>
     /\ call.keys[1] = "missing" =>
          /\ call.requests = <<>>
          /\ call.stage = "done"
          /\ call.result = "ApiKeyError"
     /\ call.keys[1] # "missing" => call.requests # <<>>

\* the value of the phase state: the last value passed to setAutoPilotPhase,
\* rendered or still queued
CurrentPhase ==
  IF pendingPhase # NoPhase THEN pendingPhase ELSE autoPilotPhase

PhaseSucc(p) ==
  CASE p = "SCANNING_TRENDS" -> {"GENERATING_CONTENT"}
    [] p = "GENERATING_CONTENT" -> {"ANALYZING_IMAGE_PROMPT"}
    [] p = "ANALYZING_IMAGE_PROMPT" -> {"GENERATING_IMAGE"}
    [] p = "GENERATING_IMAGE" ->
         {"GENERATING_VIDEO", "GENERATING_THUMBNAIL", "SCHEDULING"}
    [] p = "GENERATING_VIDEO" -> {"GENERATING_THUMBNAIL", "SCHEDULING"}
    [] p = "GENERATING_THUMBNAIL" -> {"SCHEDULING"}
    [] p = "SCHEDULING" -> {"COOLDOWN"}
    [] OTHER -> {}

\* the phase a run has set before it waits at pc
PhaseOf(pc) ==
  CASE pc = "generateTrends" -> "SCANNING_TRENDS"
    [] pc \in {"generateText", "generatePostTitle"} -> "GENERATING_CONTENT"
    [] pc = "generateImagePromptFromContent" -> "ANALYZING_IMAGE_PROMPT"
    [] pc = "generateImage" -> "GENERATING_IMAGE"
    [] pc = "generateVideo" -> "GENERATING_VIDEO"
    [] pc = "generateThumbnail" -> "GENERATING_THUMBNAIL"
    [] OTHER -> "IDLE"

\* the values the phase takes in a step: the one before it, then those set
PhaseTrace(before, step) == <<before>> \o step.sets

\* every move of the trace is one the cycle's order allows; the reset to Idle
\* of a hard abort ends it
InCycleOrder(trace, step) ==
  \A i \in 1..(Len(trace) - 1) :
     \/ trace[i + 1] \in PhaseSucc(trace[i])
     \/ trace[i + 1] = "IDLE" /\ step.ev = "abort" /\ i + 1 = Len(trace)

\* C22: while a cycle continues, the phase moves through ScanningTrends,
\* GeneratingContent, AnalyzingImagePrompt, GeneratingImage, optionally
\* GeneratingVideo, optionally GeneratingThumbnail, Scheduling, Cooldown in
\* this order: each value the phase takes follows the value it had, never
\* backwards and never past a mandatory phase, and the phase is one value of
\* the enumeration.
C22_PhasesInOrder ==
  [][/\ CurrentPhase' \in AutoPilotPhase
     /\ last'.act = "Complete" =>
          InCycleOrder(PhaseTrace(CurrentPhase, last'), last')]_vars

\* C23: the phase becomes ScanningTrends only from Idle, also when the run is
\* started by the cooldown timer.
C23_ScanningOnlyFromIdle ==
  [][\A i \in 1..Len(last'.sets) :
        last'.sets[i] = "SCANNING_TRENDS" =>
          PhaseTrace(CurrentPhase, last')[i] = "IDLE"]_vars

\* C24: GeneratingThumbnail is set, and a thumbnail is requested, only by a
\* run whose title is non-empty.
C24_ThumbnailOnlyWithTitle ==
  [][/\ "GENERATING_THUMBNAIL" \in PhasesSet(last') => last'.run.title
     /\ \A r \in runs' : r.pc = "generateThumbnail" => r.title]_vars

\* C30: while a run is in flight the phase is not Idle.
C30_InFlightNotIdle == runs # {} => CurrentPhase # "IDLE"

\* the post of the collection before a step that is at position i after it
\* (creations prepend, nothing removes)
Before(i) == posts[i - (Len(posts') - Len(posts))]

\* C28: a post that is Posted or Failed is never modified; only Scheduled
\* posts change status or scheduledTime, and the status moves only from
\* Scheduled to Posted or to Failed.
C28_FinalPostsImmutable ==
  [][/\ Len(posts') >= Len(posts)
     /\ \A i \in (Len(posts') - Len(posts) + 1)..Len(posts') :
          /\ Before(i).status \in {"Posted", "Failed"} => posts'[i] = Before(i)
          /\ posts'[i].status # Before(i).status =>
               /\ Before(i).status = "Scheduled"
               /\ posts'[i].status \in {"Posted", "Failed"}]_vars

\* C29: the ids of the posts in the collection are pairwise distinct.
C29_PostIdsDistinct ==
  \A i, j \in 1..Len(posts) : i # j => posts[i].id # posts[j].id

\* C25: the operation is never invoked more often than the configured maximum
\* attempt count, the retries argument.
C25_InvocationsWithinBudget ==
  call.fn = "retryOperation" => call.invocations <= RetriesDefault

\* C26: a wait without a hint equals the current delay: the base delay
\* multiplied by 1.5 once for each earlier wait without a hint, and by nothing
\* for the hinted waits in between.
C26_UnhintedWaitIsCurrentDelay ==
  (call.fn = "retryOperation" /\ call.waits > 0 /\ ~call.lastWait.hinted) =>
     call.lastWait.num * Pow(2, call.unhinted - 1)
       = DelayDefault * Pow(3, call.unhinted - 1) * call.lastWait.den

\* C27: a generateVideo request with more than one reference image carries
\* the model veo-3.1-generate-preview, 720p, 16:9 and the first three images
\* at most, whatever config was passed; with no or one image it carries the
\* caller's config unchanged.
C27_MultiImageForcesConfig ==
  (call.fn = "generateVideo" /\ call.stage = "sent") =>
     IF Len(call.images) > 1
     THEN /\ call.payload.model = "veo-3.1-generate-preview"
          /\ call.payload.resolution = "720p"
          /\ call.payload.aspectRatio = "16:9"
          /\ Len(call.payload.referenceImages) <= 3
          /\ \A i \in 1..Len(call.payload.referenceImages) :
                call.payload.referenceImages[i] = call.images[i]
          /\ Len(call.payload.referenceImages) = Min(Len(call.images), 3)
     ELSE /\ call.payload.model = call.config.model
          /\ call.payload.resolution = call.config.resolution
          /\ call.payload.aspectRatio = call.config.aspectRatio
          /\ call.payload.referenceImages = <<>>

C27_Witness ==
  /\ call.fn = "generateVideo" /\ call.stage = "sent"
  /\ Len(call.images) = 4
  /\ call.config = [model |-> "veo-3.1-fast-generate-preview",
                    resolution |-> "1080p", aspectRatio |-> "9:16"]
  /\ Len(call.payload.referenceImages) = 3

TypeOK ==
  /\ autoPilotPhase \in AutoPilotPhase
  /\ pendingPhase \in AutoPilotPhase \cup {NoPhase}
  /\ autoPilotTimeoutRef \in 0..timerSeq
  /\ \A t \in timers : t.id \in 1..timerSeq
  /\ Len(logs) <= LogKeep + 1

====
